---- MODULE Spec2Model ----
(***************************************************************************)
(* Model of bounoable/siteperf: the crawl-and-aggregate engine of          *)
(* Finder.FindUnused / Finder.findUsed (finder.go) and the stylesheet      *)
(* class extractor ExtractClasses (css.go).                                *)
(*                                                                         *)
(* Goroutines of findUsed: the workers (finder.go:97-152), the enqueue     *)
(* goroutines (finder.go:85-93, started at 140 and 154), the barrier       *)
(* goroutine (156-159) and the caller, which runs the aggregation loop     *)
(* (161-174) and then the resolver step of FindUnused (61-67).             *)
(*                                                                         *)
(* Both channels are unbuffered, so a send is a rendezvous: a queue send   *)
(* and its receive are one step (Receive), and a classChan send hands the  *)
(* observation to the aggregation loop, which merges it in its own step.   *)
(*                                                                         *)
(* Time: the 10 s idle timer of a worker is created when the worker enters *)
(* its select. A sender that is blocked on the queue is paired with a      *)
(* waiting worker at once, so the timer can only win while no enqueue      *)
(* goroutine is blocked on the queue (Timeout). Page rendering has no      *)
(* time bound, so a worker may time out while another one is still         *)
(* handling a page.                                                        *)
(***************************************************************************)
EXTENDS Bags, FiniteSets, Integers, Sequences, TLC

(* ---------------------------------------------------------------- bounds *)
\* runtime.NumCPU() ranges over 1..MaxCPU
MaxCPU == 2
\* the -limit flag ranges over 0..MaxLimit
MaxLimit == 2
\* the -limit flag of the crawl of the forking site
ForkLimit == 3
\* reference lists and usage tables handed to the resolver step alone
MaxRefLen == 3
MaxTableLen == 2
MaxCount == 1
\* stylesheets have up to MaxCssLen characters
MaxCssLen == 5

(* ------------------------------------------------------------- the site *)
\* the parsed root URL (url.Parse keeps Host and Path apart)
URL(h, p) == [host |-> h, path |-> p]
rootURL == URL("h", "/")

\* an anchor's href as url.Parse sees it: a parse failure, or Host and Path
Href(h, p) == [ok |-> TRUE, host |-> h, path |-> p]
BadHref == [ok |-> FALSE, host |-> "", path |-> ""]

\* A page is what the rendering engine shows for a URL: the class attribute
\* of every [class] element (a string, here a sequence of words and " "
\* separators) and the href of every a[href] element.
Page(els, hrefs) == [elements |-> els, links |-> hrefs]

\* three pages on the root host that link in a cycle, a cross-host link, a
\* relative link (empty host), a repeated link and an unparsable href
SiteCycle ==
    (URL("h", "/") :> Page(<< <<"btn", " ", "btn-primary">> >>,
                           << Href("h", "/a"), Href("x", "/"), Href("h", "/b") >>))
 @@ (URL("h", "/a") :> Page(<< <<"btn">> >>,
                            << Href("h", "/"), Href("h", "/b") >>))
 @@ (URL("h", "/b") :> Page(<< <<" ", "card", " ", " ", "btn">>, <<"card">> >>,
                            << Href("h", "/"), BadHref, Href("", "/c") >>))
 @@ (URL("h", "/c") :> Page(<< <<"orphan">> >>, << >>))
 @@ (URL("x", "/") :> Page(<< <<"alien">> >>, << Href("h", "/c") >>))

\* the two-page site: the root links to /b twice and to nothing else
SiteTwo ==
    (URL("h", "/") :> Page(<< <<"btn", " ", "btn-primary">> >>,
                           << Href("h", "/b"), Href("h", "/b") >>))
 @@ (URL("h", "/b") :> Page(<< <<"btn">> >>, << >>))

\* a smaller cycle for the fair crawl: the root admits two links at once,
\* leaves out a cross-host one, and /b links back to the root
SiteLoop ==
    (URL("h", "/") :> Page(<< <<"btn", " ", "btn-primary">> >>,
                           << Href("h", "/a"), Href("x", "/"), Href("h", "/b") >>))
 @@ (URL("h", "/a") :> Page(<< >>, << >>))
 @@ (URL("h", "/b") :> Page(<< <<"btn">> >>, << Href("h", "/") >>))

\* a fork: the root admits /a and /b, which then lead to two different
\* paths that nobody has seen (/c and the root's own)
SiteFork ==
    (URL("h", "/") :> Page(<< <<"btn">> >>, << Href("h", "/a"), Href("h", "/b") >>))
 @@ (URL("h", "/a") :> Page(<< >>, << Href("h", "/c") >>))
 @@ (URL("h", "/b") :> Page(<< >>, << Href("h", "/") >>))
 @@ (URL("h", "/c") :> Page(<< <<"card">> >>, << >>))

Sites == {SiteCycle, SiteTwo}
Hosts == {"h", "x", ""}
Paths == {"/", "/a", "/b", "/c"}
URLs == {URL(h, p) : h \in Hosts, p \in Paths}
\* a URL the site does not serve renders as a page without elements
PageAt(s, u) == IF u \in DOMAIN s THEN s[u] ELSE Page(<< >>, << >>)
ClassNames == {"btn", "btn-primary", "card", "orphan", "alien", "unused-one"}

\* what can go wrong while a worker handles a page (finder.go:116-138): the
\* first, a middle and the last call that can fail. A failure of WaitStable
\* or of extractClasses takes the same `continue` as one of WaitLoad.
FaultKinds == {"MustPage", "WaitLoad", "findLinks"}
NoFault == [u \in URLs |-> "ok"]
\* at most one URL of the site fails, always at the same call
Faults == {NoFault} \cup {[NoFault EXCEPT ![URL("h", "/b")] = k] : k \in FaultKinds}

\* the reference lists handed to FindUnused
ReferenceLists == { <<"btn", "btn-primary", "unused-one">>,
                    <<"card", "alien", "card", "orphan">> }

VARIABLES
    workers,      \* findUsed: workers = min(4, runtime.NumCPU())
    pageLimit,    \* Finder.pageLimit
    site,         \* the site behind rootURL
    fault,        \* which URL fails to render, and at which call
    classes,      \* FindUnused: the reference list
    ctxDone,      \* ctx has been cancelled
    pc,           \* where each worker goroutine is
    pageUrl,      \* worker: the URL received from queue
    links,        \* findLinks: the a[href] elements not yet examined
    out,          \* findLinks: the URLs admitted so far
    pageClasses,  \* worker: the observations not yet sent on classChan
    visited,      \* visitedPages.paths
    enqueuers,    \* the enqueue goroutines: a bag of the URLs each has left
    wg,           \* the wait group's counter
    closed,       \* classChan has been closed
    class,        \* aggregation loop: the observation just received, or none
    tmp,          \* aggregation loop: the usage table
    mainPc,       \* the caller of FindUnused
    used,         \* FindUnused: what findUsed returned
    unused,       \* FindUnused: the returned list
    err,          \* FindUnused: the returned error
    panicked,     \* a goroutine panicked: the process is gone
    received,     \* history: how often each URL was received from queue
    sent,         \* history: sum of the counts sent on classChan, per class
    dropped,      \* history: an enqueue goroutine gave up on its URLs
    css,          \* ExtractClasses: the stylesheet text
    cssClasses,   \* ExtractClasses: the returned list
    visitCount,   \* colly engine: visitCount (atomic.Uint64)
    visitedPaths, \* colly engine: the keys of visitedPaths (sync.Map)
    requested,    \* colly engine: the URLs the collector has been asked for
    fetches,      \* colly engine: requested URLs whose response is still to come
    cbPc,         \* colly engine: each request goroutine's position
    anchors,      \* colly engine: the a[href] elements its response has left
    scheduled     \* history: the links the collector accepted, in order
collyVars == << visitCount, visitedPaths, requested, fetches, cbPc, anchors, scheduled >>
vars == << workers, pageLimit, site, fault, classes, ctxDone, pc, pageUrl, links,
           out, pageClasses, visited, enqueuers, wg, closed, class, tmp, mainPc,
           used, unused, err, panicked, received, sent, dropped, css, cssClasses, collyVars >>

None == [none |-> TRUE]
Min(a, b) == IF a < b THEN a ELSE b
Range(s) == {s[i] : i \in 1..Len(s)}
WorkerIds == 1..Min(4, MaxCPU)
Pool == 1..workers
\* the colly engine's request goroutines: LimitRule.Parallelism
Parallelism == Min(8, MaxCPU)
Threads == 1..Parallelism

(* ------------------------------------------------------- pure functions *)
\* filter (finder.go:246-257): filtered[i] is the slice after the loop has
\* seen the first i elements; fn is a function on the elements of s
filter(s, fn) ==
    LET filtered[i \in 0..Len(s)] ==
            IF i = 0 THEN << >>
            ELSE IF fn[s[i]] THEN Append(filtered[i - 1], s[i])
            ELSE filtered[i - 1]
    IN filtered[Len(s)]

usedClass(c, n) == [class |-> c, count |-> n]

\* the predicate FindUnused filters with (finder.go:61-65)
IsUnusedMutCountIgnored(usedList, s) ==
    ~ \E i \in 1..Len(usedList) : usedList[i].class = s
IsUnused(usedList, s) ==
    ~ \E i \in 1..Len(usedList) : usedList[i].class = s /\ usedList[i].count > 0

\* the resolver step of FindUnused (finder.go:61-67)
Resolve(classList, usedList) ==
    filter(classList, [s \in Range(classList) |-> IsUnused(usedList, s)])

\* strings.Split(raw, " "): the words between the separators, "" where two
\* separators touch or one starts or ends the string
RECURSIVE Split(_)
Split(raw) ==
    IF raw = << >> THEN << "" >>
    ELSE IF Head(raw) = " " THEN << "" >> \o Split(Tail(raw))
    ELSE IF Len(raw) = 1 THEN << Head(raw) >>
    ELSE IF raw[2] = " " THEN << Head(raw) >> \o Split(Tail(Tail(raw)))
    ELSE << Head(raw) >> \o Split(Tail(raw))

\* the class list of one element (finder.go:227-228)
NotBlank(s) == s # ""
classList(raw) == filter(Split(raw), [s \in Range(Split(raw)) |-> NotBlank(s)])

\* extractClasses (finder.go:212-244): found[class]++ over all elements
RECURSIVE CountIn(_, _)
CountIn(s, c) ==
    IF s = << >> THEN 0
    ELSE (IF Head(s) = c THEN 1 ELSE 0) + CountIn(Tail(s), c)
RECURSIVE found(_, _)
found(elements, c) ==
    IF elements = << >> THEN 0
    ELSE CountIn(classList(Head(elements)), c) + found(Tail(elements), c)
extractClassesMutPresence(page) ==
    {usedClass(c, 1) : c \in {d \in ClassNames : found(page.elements, d) > 0}}
extractClasses(page) ==
    {usedClass(c, found(page.elements, c)) : c \in {d \in ClassNames : found(page.elements, d) > 0}}

(* ----------------------------------------------------------------- Init *)
\* the colly engine is not running
CollyIdle ==
    /\ visitCount = 0 /\ visitedPaths = {}
    /\ requested = {} /\ fetches = {}
    /\ cbPc = [t \in Threads |-> "absent"]
    /\ anchors = [t \in Threads |-> << >>]
    /\ scheduled = << >>

\* findUsed has started its goroutines (finder.go:76-159); the site is one
\* of sites and the reference list one of lists
StartWith(limits, sites, lists) ==
    /\ workers \in {Min(4, n) : n \in 1..MaxCPU}
    /\ pageLimit \in limits
    /\ site \in sites
    /\ fault \in Faults
    /\ classes \in lists
    /\ ctxDone = FALSE
    /\ pc = [w \in WorkerIds |-> IF w \in Pool THEN "select" ELSE "absent"]
    /\ pageUrl = [w \in WorkerIds |-> None]
    /\ links = [w \in WorkerIds |-> << >>]
    /\ out = [w \in WorkerIds |-> << >>]
    /\ pageClasses = [w \in WorkerIds |-> {}]
    /\ visited = {}
    /\ enqueuers = SetToBag({ << rootURL >> })
    /\ wg = workers
    /\ closed = FALSE
    /\ class = None
    /\ tmp = [c \in ClassNames |-> 0]
    /\ mainPc = "aggregate"
    /\ used = << >>
    /\ unused = << >>
    /\ err = "nil"
    /\ panicked = FALSE
    /\ received = [u \in URLs |-> 0]
    /\ sent = [c \in ClassNames |-> 0]
    /\ dropped = FALSE
    /\ css = << >>
    /\ cssClasses = << >>
    /\ CollyIdle

Start(sites, lists) == StartWith(0..MaxLimit, sites, lists)
Init == Start(Sites, ReferenceLists)

(* -------------------------------------------------------------- helpers *)
Running == ~panicked /\ mainPc # "returned"

\* an enqueue goroutine that has urls left gives way to one that has rest left
Advance(urls, rest) ==
    (enqueuers (-) SetToBag({urls}))
        (+) (IF rest = << >> THEN EmptyBag ELSE SetToBag({rest}))

\* worker goroutine returns: defer wg.Done() (finder.go:99)
Exit(w) ==
    /\ pc' = [pc EXCEPT ![w] = "exited"]
    /\ wg' = wg - 1

(* -------------------------------------------------------------- actions *)
\* ctx is cancelled from outside (main.go:45: os.Interrupt)
Cancel ==
    /\ Running /\ ~ctxDone /\ ~closed
    /\ ctxDone' = TRUE
    /\ UNCHANGED << workers, pageLimit, site, fault, classes, pc, pageUrl, links,
                    out, pageClasses, visited, enqueuers, wg, closed, class, tmp,
                    mainPc, used, unused, err, panicked, received, sent, dropped, css, cssClasses, collyVars >>

\* enqueue sends its next URL and a worker's select receives it
\* (finder.go:90 and 111). Go picks among the ready cases of a select at
\* random, so this can happen after ctx is cancelled as well.
Receive(w) ==
    /\ Running /\ pc[w] = "select"
    /\ \E urls \in BagToSet(enqueuers) :
         /\ enqueuers' = Advance(urls, Tail(urls))
         /\ pageUrl' = [pageUrl EXCEPT ![w] = Head(urls)]
         /\ received' = [received EXCEPT ![Head(urls)] = @ + 1]
    /\ pc' = [pc EXCEPT ![w] = "visit"]
    /\ UNCHANGED << workers, pageLimit, site, fault, classes, ctxDone, links, out,
                    pageClasses, visited, wg, closed, class, tmp, mainPc, used,
                    unused, err, panicked, sent, dropped, css, cssClasses, collyVars >>

\* enqueue's select takes <-ctx.Done() and returns (finder.go:88-89); no
\* barrier waits for this goroutine, so it may still do so after findUsed
\* has returned
EnqueueAbortMutNever(urls) == FALSE
EnqueueAbort(urls) == ctxDone
EnqueueReturn ==
    /\ ~panicked
    /\ \E urls \in BagToSet(enqueuers) :
         /\ EnqueueAbort(urls)
         /\ enqueuers' = Advance(urls, << >>)
    /\ dropped' = TRUE
    /\ UNCHANGED << workers, pageLimit, site, fault, classes, ctxDone, pc, pageUrl,
                    links, out, pageClasses, visited, wg, closed, class, tmp, mainPc,
                    used, unused, err, panicked, received, sent, css, cssClasses, collyVars >>

\* the worker's select takes <-ctx.Done() (finder.go:105-107)
CtxExit(w) ==
    /\ Running /\ pc[w] = "select" /\ ctxDone
    /\ Exit(w)
    /\ UNCHANGED << workers, pageLimit, site, fault, classes, ctxDone, pageUrl, links,
                    out, pageClasses, visited, enqueuers, closed, class, tmp, mainPc,
                    used, unused, err, panicked, received, sent, dropped, css, cssClasses, collyVars >>

\* the worker's select takes <-timer.C (finder.go:108-110)
TimeoutMutNever(w) == FALSE
TimeoutMutAnytime(w) ==
    /\ Running /\ pc[w] = "select"
    /\ Exit(w)
    /\ UNCHANGED << workers, pageLimit, site, fault, classes, ctxDone, pageUrl, links,
                    out, pageClasses, visited, enqueuers, closed, class, tmp, mainPc,
                    used, unused, err, panicked, received, sent, dropped, css, cssClasses, collyVars >>
Timeout(w) ==
    /\ Running /\ pc[w] = "select"
    /\ enqueuers = EmptyBag
    /\ Exit(w)
    /\ UNCHANGED << workers, pageLimit, site, fault, classes, ctxDone, pageUrl, links,
                    out, pageClasses, visited, enqueuers, closed, class, tmp, mainPc,
                    used, unused, err, panicked, received, sent, dropped, css, cssClasses, collyVars >>

\* browser.MustPage panics when the page cannot be created (finder.go:116);
\* nothing recovers, so the process dies
Panic(w) ==
    /\ Running /\ pc[w] = "visit"
    /\ fault[pageUrl[w]] = "MustPage"
    /\ panicked' = TRUE
    /\ UNCHANGED << workers, pageLimit, site, fault, classes, ctxDone, pc, pageUrl,
                    links, out, pageClasses, visited, enqueuers, wg, closed, class,
                    tmp, mainPc, used, unused, err, received, sent, dropped, css, cssClasses, collyVars >>

\* WaitLoad (or WaitStable, or extractClasses) or the a[href] query of
\* findLinks fails: log and continue (finder.go:118-138, 178-181)
PageErrorMutPublishes(w) ==
    /\ Running /\ pc[w] = "visit"
    /\ fault[pageUrl[w]] \in {"WaitLoad", "findLinks"}
    /\ pageClasses' = [pageClasses EXCEPT ![w] =
                          IF fault[pageUrl[w]] = "findLinks"
                          THEN extractClasses(PageAt(site, pageUrl[w])) ELSE {}]
    /\ pc' = [pc EXCEPT ![w] = IF pageClasses'[w] = {} THEN "select" ELSE "publish"]
    /\ UNCHANGED << workers, pageLimit, site, fault, classes, ctxDone, pageUrl, links,
                    out, visited, enqueuers, wg, closed, class, tmp,
                    mainPc, used, unused, err, panicked, received, sent, dropped, css, cssClasses, collyVars >>
PageError(w) ==
    /\ Running /\ pc[w] = "visit"
    /\ fault[pageUrl[w]] \in {"WaitLoad", "findLinks"}
    /\ pc' = [pc EXCEPT ![w] = "select"]
    /\ UNCHANGED << workers, pageLimit, site, fault, classes, ctxDone, pageUrl, links,
                    out, pageClasses, visited, enqueuers, wg, closed, class, tmp,
                    mainPc, used, unused, err, panicked, received, sent, dropped, css, cssClasses, collyVars >>

\* the page renders: extractClasses returns its counts and findLinks has
\* queried the a[href] elements (finder.go:116-134, 178-183)
Visit(w) ==
    /\ Running /\ pc[w] = "visit"
    /\ fault[pageUrl[w]] = "ok"
    /\ pageClasses' = [pageClasses EXCEPT ![w] = extractClasses(PageAt(site, pageUrl[w]))]
    /\ links' = [links EXCEPT ![w] = PageAt(site, pageUrl[w]).links]
    /\ out' = [out EXCEPT ![w] = << >>]
    /\ pc' = [pc EXCEPT ![w] = "findLinks"]
    /\ UNCHANGED << workers, pageLimit, site, fault, classes, ctxDone, pageUrl,
                    visited, enqueuers, wg, closed, class, tmp, mainPc, used, unused,
                    err, panicked, received, sent, dropped, css, cssClasses, collyVars >>

\* findLinks: is this link left out? (finder.go:185-203)
SameHostMutAny(to) == TRUE
SameHost(to) == to.host = rootURL.host
LimitReachedMutZeroCounts == Cardinality(visited) >= pageLimit
LimitReached == pageLimit > 0 /\ Cardinality(visited) >= pageLimit
SkippedMutNoHas(to) ==
    \/ ~to.ok
    \/ ~SameHost(to)
    \/ LimitReached
Skipped(to) ==
    \/ ~to.ok
    \/ ~SameHost(to)
    \/ to.path \in visited
    \/ LimitReached

\* findLinks examines the next link: visited.has and visited.count
\* (finder.go:184-203). The two reads take the lock one after the other;
\* the set only grows, so reading both at once admits the same links.
CheckLink(w) ==
    /\ Running /\ pc[w] = "findLinks"
    /\ links[w] # << >>
    /\ IF Skipped(Head(links[w]))
       THEN /\ links' = [links EXCEPT ![w] = Tail(@)]
            /\ pc' = pc
       ELSE /\ links' = links
            /\ pc' = [pc EXCEPT ![w] = "add"]
    /\ UNCHANGED << workers, pageLimit, site, fault, classes, ctxDone, pageUrl, out,
                    pageClasses, visited, enqueuers, wg, closed, class, tmp, mainPc,
                    used, unused, err, panicked, received, sent, dropped, css, cssClasses, collyVars >>

\* findLinks admits the link: visited.add and append (finder.go:204-206)
AddLink(w) ==
    /\ Running /\ pc[w] = "add"
    /\ visited' = visited \cup {Head(links[w]).path}
    /\ out' = [out EXCEPT ![w] = Append(@, URL(Head(links[w]).host, Head(links[w]).path))]
    /\ links' = [links EXCEPT ![w] = Tail(@)]
    /\ pc' = [pc EXCEPT ![w] = "findLinks"]
    /\ UNCHANGED << workers, pageLimit, site, fault, classes, ctxDone, pageUrl,
                    pageClasses, enqueuers, wg, closed, class, tmp, mainPc, used,
                    unused, err, panicked, received, sent, dropped, css, cssClasses, collyVars >>

\* findLinks returns and the worker starts go enqueue(links...)
\* (finder.go:209, 140); with no class to publish it is back at its select
SpawnMutBlocking(w) ==
    /\ Running /\ pc[w] = "findLinks"
    /\ links[w] = << >>
    /\ out[w] # << >> => \E v \in Pool \ {w} : pc[v] = "select"
    /\ enqueuers' = IF out[w] = << >> THEN enqueuers
                    ELSE enqueuers (+) SetToBag({out[w]})
    /\ out' = [out EXCEPT ![w] = << >>]
    /\ pc' = [pc EXCEPT ![w] = IF pageClasses[w] = {} THEN "select" ELSE "publish"]
    /\ UNCHANGED << workers, pageLimit, site, fault, classes, ctxDone, pageUrl, links,
                    pageClasses, visited, wg, closed, class, tmp, mainPc, used,
                    unused, err, panicked, received, sent, dropped, css, cssClasses, collyVars >>
Spawn(w) ==
    /\ Running /\ pc[w] = "findLinks"
    /\ links[w] = << >>
    /\ enqueuers' = IF out[w] = << >> THEN enqueuers
                    ELSE enqueuers (+) SetToBag({out[w]})
    /\ out' = [out EXCEPT ![w] = << >>]
    /\ pc' = [pc EXCEPT ![w] = IF pageClasses[w] = {} THEN "select" ELSE "publish"]
    /\ UNCHANGED << workers, pageLimit, site, fault, classes, ctxDone, pageUrl, links,
                    pageClasses, visited, wg, closed, class, tmp, mainPc, used,
                    unused, err, panicked, received, sent, dropped, css, cssClasses, collyVars >>

\* the publish loop sends the next observation and the aggregation loop
\* receives it (finder.go:146, 162); pageClasses comes from a map, so any
\* order is possible
Publish(w) ==
    /\ Running /\ pc[w] = "publish"
    /\ mainPc = "aggregate" /\ class = None
    /\ \E c \in pageClasses[w] :
         /\ class' = c
         /\ sent' = [sent EXCEPT ![c.class] = @ + c.count]
         /\ pageClasses' = [pageClasses EXCEPT ![w] = @ \ {c}]
         /\ pc' = [pc EXCEPT ![w] = IF pageClasses[w] = {c} THEN "select" ELSE "publish"]
    /\ UNCHANGED << workers, pageLimit, site, fault, classes, ctxDone, pageUrl, links,
                    out, visited, enqueuers, wg, closed, tmp, mainPc, used, unused,
                    err, panicked, received, dropped, css, cssClasses, collyVars >>

\* the publish loop's select takes <-ctx.Done() (finder.go:144-145)
PublishAbort(w) ==
    /\ Running /\ pc[w] = "publish" /\ ctxDone
    /\ Exit(w)
    /\ UNCHANGED << workers, pageLimit, site, fault, classes, ctxDone, pageUrl, links,
                    out, pageClasses, visited, enqueuers, closed, class, tmp, mainPc,
                    used, unused, err, panicked, received, sent, dropped, css, cssClasses, collyVars >>

\* the aggregation loop adds the observation to the table (finder.go:163-166)
mergeMutOverwrite(table, obs) == [table EXCEPT ![obs.class] = obs.count]
merge(table, obs) == [table EXCEPT ![obs.class] = @ + obs.count]
Aggregate ==
    /\ Running /\ mainPc = "aggregate" /\ class # None
    /\ tmp' = merge(tmp, class)
    /\ class' = None
    /\ UNCHANGED << workers, pageLimit, site, fault, classes, ctxDone, pc, pageUrl,
                    links, out, pageClasses, visited, enqueuers, wg, closed, mainPc,
                    used, unused, err, panicked, received, sent, dropped, css, cssClasses, collyVars >>

\* the barrier goroutine: wg.Wait() returns, close(classChan) (finder.go:156-159)
CloseMutNoWait ==
    /\ Running /\ ~closed
    /\ closed' = TRUE
    /\ UNCHANGED << workers, pageLimit, site, fault, classes, ctxDone, pc, pageUrl,
                    links, out, pageClasses, visited, enqueuers, wg, class, tmp, mainPc,
                    used, unused, err, panicked, received, sent, dropped, css, cssClasses, collyVars >>
Close ==
    /\ Running /\ ~closed
    /\ wg = 0
    /\ closed' = TRUE
    /\ UNCHANGED << workers, pageLimit, site, fault, classes, ctxDone, pc, pageUrl,
                    links, out, pageClasses, visited, enqueuers, wg, class, tmp, mainPc,
                    used, unused, err, panicked, received, sent, dropped, css, cssClasses, collyVars >>

\* the slices findUsed can build from the table (finder.go:169-172): the
\* entries of the map, in any order
Tables(table) ==
    LET keys == {c \in ClassNames : table[c] > 0}
        n == Cardinality(keys)
    IN {[i \in 1..n |-> usedClass(f[i], table[f[i]])] :
          f \in {g \in [1..n -> keys] : \A i, j \in 1..n : i # j => g[i] # g[j]}}

\* the range loop ends on the closed channel, findUsed returns the table
\* with a nil error, FindUnused filters the reference list and returns
\* (finder.go:167-174, 56-67)
Return ==
    /\ Running /\ mainPc = "aggregate" /\ class = None
    /\ closed
    /\ \E table \in Tables(tmp) :
         /\ used' = table
         /\ unused' = Resolve(classes, table)
    /\ err' = "nil"
    /\ mainPc' = "returned"
    /\ UNCHANGED << workers, pageLimit, site, fault, classes, ctxDone, pc, pageUrl,
                    links, out, pageClasses, visited, enqueuers, wg, closed, class, tmp,
                    panicked, received, sent, dropped, css, cssClasses, collyVars >>

Next ==
    \/ Cancel
    \/ EnqueueReturn
    \/ Aggregate
    \/ Close
    \/ Return
    \/ \E w \in Pool : Receive(w)
    \/ \E w \in Pool : CtxExit(w)
    \/ \E w \in Pool : Timeout(w)
    \/ \E w \in Pool : Panic(w)
    \/ \E w \in Pool : PageError(w)
    \/ \E w \in Pool : Visit(w)
    \/ \E w \in Pool : CheckLink(w)
    \/ \E w \in Pool : AddLink(w)
    \/ \E w \in Pool : Spawn(w)
    \/ \E w \in Pool : Publish(w)
    \/ \E w \in Pool : PublishAbort(w)

Spec == Init /\ [][Next]_vars

(* --------------------------------------------------- fair crawl (SpecLive) *)
\* everything worker w can do
Worker(w) ==
    \/ Receive(w) \/ CtxExit(w) \/ Timeout(w) \/ Panic(w) \/ PageError(w) \/ Visit(w)
    \/ CheckLink(w) \/ AddLink(w) \/ Spawn(w) \/ Publish(w) \/ PublishAbort(w)

\* The Go scheduler lets every goroutine that can run take its next step:
\* the workers, the enqueue goroutines, the barrier goroutine and the caller.
\* Cancel is the environment's and has no fairness.
Fairness ==
    /\ \A w \in WorkerIds : WF_vars(w \in Pool /\ Worker(w))
    /\ WF_vars(EnqueueReturn)
    /\ WF_vars(Aggregate)
    /\ WF_vars(Close)
    /\ WF_vars(Return)
\* The reference list plays no part before Return, so one list is enough
\* here; the smaller cycle keeps the graph of all interleavings of three
\* workers with a cancellation small enough for TLC to search for fair cycles.
InitLive == Start({SiteLoop}, {<< "btn", "btn-primary", "unused-one" >>})
SpecLive == InitLive /\ [][Next]_vars /\ Fairness

(* ------------------------------------ the forking site (SpecFork) *)
\* a crawl of the forking site with -limit ForkLimit
InitFork == StartWith({ForkLimit}, {SiteFork}, {<< "btn", "card", "unused-one" >>})
SpecFork == InitFork /\ [][Next]_vars

(* ------------------------------------- the resolver step alone (SpecResolve) *)
RefNames == {"btn", "card", "unused-one"}
SeqsUpTo(S, n) == UNION {[1..k -> S] : k \in 0..n}
\* a usage table as findUsed builds it from its map: no class twice
UsageTables ==
    {t \in SeqsUpTo([class : RefNames, count : 0..MaxCount], MaxTableLen) :
        \A i, j \in 1..Len(t) : i # j => t[i].class # t[j].class}

CrawlIdle ==
    /\ workers = 1 /\ fault = NoFault
    /\ ctxDone = FALSE
    /\ pc = [w \in WorkerIds |-> "absent"]
    /\ pageUrl = [w \in WorkerIds |-> None]
    /\ links = [w \in WorkerIds |-> << >>]
    /\ out = [w \in WorkerIds |-> << >>]
    /\ pageClasses = [w \in WorkerIds |-> {}]
    /\ visited = {} /\ enqueuers = EmptyBag /\ wg = 0 /\ closed = FALSE
    /\ class = None /\ tmp = [c \in ClassNames |-> 0]
    /\ err = "nil" /\ panicked = FALSE
    /\ received = [u \in URLs |-> 0] /\ sent = [c \in ClassNames |-> 0]
    /\ dropped = FALSE
Idle ==
    /\ pageLimit = 0 /\ site = SiteTwo
    /\ CrawlIdle
    /\ CollyIdle

InitResolve ==
    /\ Idle
    /\ classes \in SeqsUpTo(RefNames, MaxRefLen)
    /\ used \in UsageTables
    /\ unused = << >>
    /\ mainPc = "resolve"
    /\ css = << >> /\ cssClasses = << >>

\* FindUnused after findUsed has returned `used` (finder.go:61-67)
ResolveStep ==
    /\ mainPc = "resolve"
    /\ unused' = Resolve(classes, used)
    /\ mainPc' = "resolved"
    /\ UNCHANGED << workers, pageLimit, site, fault, classes, ctxDone, pc, pageUrl,
                    links, out, pageClasses, visited, enqueuers, wg, closed, class, tmp,
                    used, err, panicked, received, sent, dropped, css, cssClasses, collyVars >>

NextResolve == ResolveStep
SpecResolve == InitResolve /\ [][NextResolve]_vars

(* ---------------------------------------------- ExtractClasses (SpecCss) *)
\* the characters of a stylesheet and their byte values
Byte == ("-" :> 45) @@ ("." :> 46) @@ ("1" :> 49) @@ ("_" :> 95) @@ ("a" :> 97)
        @@ ("b" :> 98) @@ ("{" :> 123)
CssChars == DOMAIN Byte
Letters == {"a", "b"}
Digits == {"1"}
\* [a-zA-Z0-9_-]
WordChars == Letters \cup Digits \cup {"_", "-"}

\* re.FindAllStringSubmatch with \.[a-zA-Z0-9_-]+ (css.go:19-21): leftmost
\* matches, each as long as it can be, none overlapping; from index i on
RECURSIVE WordEnd(_, _)
WordEnd(text, i) ==
    IF i < Len(text) /\ text[i + 1] \in WordChars THEN WordEnd(text, i + 1) ELSE i
RECURSIVE FindAll(_, _)
FindAll(text, i) ==
    IF i > Len(text) THEN << >>
    ELSE IF text[i] = "." /\ i < Len(text) /\ text[i + 1] \in WordChars
         THEN << SubSeq(text, i, WordEnd(text, i + 1)) >>
                  \o FindAll(text, WordEnd(text, i + 1) + 1)
         ELSE FindAll(text, i + 1)

\* match[0][1:] of every match (css.go:23-25)
StripDot(matches) == [k \in 1..Len(matches) |-> SubSeq(matches[k], 2, Len(matches[k]))]

\* validClassRE: ^(?:[a-zA-Z_][a-zA-Z0-9_-]*$) (css.go:37-41)
isValidClass(name) ==
    /\ name # << >>
    /\ name[1] \in Letters \cup {"_"}
    /\ \A k \in 2..Len(name) : name[k] \in WordChars

\* unique (css.go:43-56): the first occurrence of every element, in order
uniqueMutKeepAll(s) == s
unique(s) ==
    LET kept[i \in 0..Len(s)] ==
            IF i = 0 THEN << >>
            ELSE IF s[i] \in Range(kept[i - 1]) THEN kept[i - 1]
            ELSE Append(kept[i - 1], s[i])
    IN kept[Len(s)]

\* Go's < on strings: bytewise lexicographic
RECURSIVE Less(_, _)
Less(a, b) ==
    IF b = << >> THEN FALSE
    ELSE IF a = << >> THEN TRUE
    ELSE IF Byte[Head(a)] # Byte[Head(b)] THEN Byte[Head(a)] < Byte[Head(b)]
    ELSE Less(Tail(a), Tail(b))

\* slices.Sort (css.go:32): the ascending arrangement of the slice
RECURSIVE Insert(_, _)
Insert(sorted, e) ==
    IF sorted = << >> THEN << e >>
    ELSE IF Less(e, Head(sorted)) THEN << e >> \o sorted
    ELSE << Head(sorted) >> \o Insert(Tail(sorted), e)
Sort(s) ==
    LET done[i \in 0..Len(s)] == IF i = 0 THEN << >> ELSE Insert(done[i - 1], s[i])
    IN done[Len(s)]

\* ExtractClasses (css.go:17-35)
ExtractClasses(text) ==
    LET classNames == StripDot(FindAll(text, 1))
    IN Sort(unique(filter(classNames, [s \in Range(classNames) |-> isValidClass(s)])))

InitCss ==
    /\ Idle
    /\ classes = << >> /\ used = << >> /\ unused = << >>
    /\ mainPc = "css"
    /\ css \in SeqsUpTo(CssChars, MaxCssLen)
    /\ cssClasses = << >>

\* main.go:40 -> ExtractClassesFromFile -> ExtractClasses (css.go:14)
Extract ==
    /\ mainPc = "css"
    /\ cssClasses' = ExtractClasses(css)
    /\ mainPc' = "extracted"
    /\ UNCHANGED << workers, pageLimit, site, fault, classes, ctxDone, pc, pageUrl,
                    links, out, pageClasses, visited, enqueuers, wg, closed, class, tmp,
                    used, unused, err, panicked, received, sent, dropped, css, collyVars >>

NextCss == Extract
SpecCss == InitCss /\ [][NextCss]_vars

(* ------------------------------------- the colly engine (SpecColly) *)
\* findUsed of the rate-limited engine has called c.Visit(rootURL)
\* (part_001:64-136); the browser engine's goroutines do not exist
CollySites == {SiteCycle, SiteTwo, SiteFork}
InitColly ==
    /\ pageLimit \in 0..MaxLimit
    /\ site \in CollySites
    /\ CrawlIdle
    /\ classes = << >> /\ used = << >> /\ unused = << >>
    /\ mainPc = "colly"
    /\ css = << >> /\ cssClasses = << >>
    /\ visitCount = 0 /\ visitedPaths = {}
    /\ requested = {rootURL} /\ fetches = {rootURL}
    /\ cbPc = [t \in Threads |-> "idle"]
    /\ anchors = [t \in Threads |-> << >>]
    /\ scheduled = << >>

\* the a[href] callback returns; colly calls it for the next element of the
\* response, if there is one
CallbackReturn(t) ==
    /\ anchors' = [anchors EXCEPT ![t] = Tail(@)]
    /\ cbPc' = [cbPc EXCEPT ![t] = IF Tail(anchors[t]) = << >> THEN "idle" ELSE "limit"]

\* a request goroutine gets its response and colly runs the a[href]
\* callback on the matching elements, one after the other (part_001:105)
Fetch(t) ==
    /\ cbPc[t] = "idle"
    /\ \E u \in fetches :
         /\ fetches' = fetches \ {u}
         /\ anchors' = [anchors EXCEPT ![t] = PageAt(site, u).links]
         /\ cbPc' = [cbPc EXCEPT ![t] =
                        IF PageAt(site, u).links = << >> THEN "idle" ELSE "limit"]
    /\ UNCHANGED << workers, pageLimit, site, fault, classes, ctxDone, pc, pageUrl,
                    links, out, pageClasses, visited, enqueuers, wg, closed, class, tmp,
                    mainPc, used, unused, err, panicked, received, sent, dropped, css,
                    cssClasses, visitCount, visitedPaths, requested, scheduled >>

\* count > uint64(f.pageLimit) under f.pageLimit > 0 (part_001:106-110)
OverLimit == pageLimit > 0 /\ visitCount > pageLimit
CheckLimit(t) ==
    /\ cbPc[t] = "limit"
    /\ IF OverLimit
       THEN CallbackReturn(t)
       ELSE /\ cbPc' = [cbPc EXCEPT ![t] = "load"]
            /\ anchors' = anchors
    /\ UNCHANGED << workers, pageLimit, site, fault, classes, ctxDone, pc, pageUrl,
                    links, out, pageClasses, visited, enqueuers, wg, closed, class, tmp,
                    mainPc, used, unused, err, panicked, received, sent, dropped, css,
                    cssClasses, visitCount, visitedPaths, requested, fetches, scheduled >>

\* url.Parse, visitedPaths.Load and the host comparison (part_001:112-125)
LoadPath(t) ==
    /\ cbPc[t] = "load"
    /\ LET to == Head(anchors[t])
       IN IF ~to.ok \/ to.path \in visitedPaths \/ to.host # rootURL.host
          THEN CallbackReturn(t)
          ELSE /\ cbPc' = [cbPc EXCEPT ![t] = "visit"]
               /\ anchors' = anchors
    /\ UNCHANGED << workers, pageLimit, site, fault, classes, ctxDone, pc, pageUrl,
                    links, out, pageClasses, visited, enqueuers, wg, closed, class, tmp,
                    mainPc, used, unused, err, panicked, received, sent, dropped, css,
                    cssClasses, visitCount, visitedPaths, requested, fetches, scheduled >>

\* e.Request.Visit (part_001:127): the collector was created without
\* AllowURLRevisit (part_001:64), so it refuses a URL it was asked for
\* before; the callback ignores the error
RequestVisit(t) ==
    /\ cbPc[t] = "visit"
    /\ LET to == Head(anchors[t])
           u == URL(to.host, to.path)
       IN IF u \in requested
          THEN UNCHANGED << requested, fetches, scheduled >>
          ELSE /\ requested' = requested \cup {u}
               /\ fetches' = fetches \cup {u}
               /\ scheduled' = Append(scheduled, [path |-> to.path, before |-> Len(scheduled)])
    /\ cbPc' = [cbPc EXCEPT ![t] = "add"]
    /\ UNCHANGED << workers, pageLimit, site, fault, classes, ctxDone, pc, pageUrl,
                    links, out, pageClasses, visited, enqueuers, wg, closed, class, tmp,
                    mainPc, used, unused, err, panicked, received, sent, dropped, css,
                    cssClasses, visitCount, visitedPaths, anchors >>

\* visitCount.Add(1) (part_001:128)
AddCount(t) ==
    /\ cbPc[t] = "add"
    /\ visitCount' = visitCount + 1
    /\ cbPc' = [cbPc EXCEPT ![t] = "store"]
    /\ UNCHANGED << workers, pageLimit, site, fault, classes, ctxDone, pc, pageUrl,
                    links, out, pageClasses, visited, enqueuers, wg, closed, class, tmp,
                    mainPc, used, unused, err, panicked, received, sent, dropped, css,
                    cssClasses, visitedPaths, requested, fetches, anchors, scheduled >>

\* visitedPaths.Store(to.Path, true), and the callback returns
\* (part_001:129-132)
StorePath(t) ==
    /\ cbPc[t] = "store"
    /\ visitedPaths' = visitedPaths \cup {Head(anchors[t]).path}
    /\ CallbackReturn(t)
    /\ UNCHANGED << workers, pageLimit, site, fault, classes, ctxDone, pc, pageUrl,
                    links, out, pageClasses, visited, enqueuers, wg, closed, class, tmp,
                    mainPc, used, unused, err, panicked, received, sent, dropped, css,
                    cssClasses, visitCount, requested, fetches, scheduled >>

NextColly ==
    \/ \E t \in Threads : Fetch(t)
    \/ \E t \in Threads : CheckLimit(t)
    \/ \E t \in Threads : LoadPath(t)
    \/ \E t \in Threads : RequestVisit(t)
    \/ \E t \in Threads : AddCount(t)
    \/ \E t \in Threads : StorePath(t)
SpecColly == InitColly /\ [][NextColly]_vars

(* ================================================================ claims *)
Returned == mainPc = "returned"

\* the parsed targets of the links of page u whose host is the root's host
SameHostTargets(s, u) ==
    {URL(l.host, l.path) : l \in {k \in Range(PageAt(s, u).links) :
                                    k.ok /\ k.host = rootURL.host}}
\* the URLs reachable from rootURL through such links
RECURSIVE ReachableFrom(_, _)
ReachableFrom(s, seen) ==
    LET more == seen \cup UNION {SameHostTargets(s, u) : u \in seen}
    IN IF more = seen THEN seen ELSE ReachableFrom(s, more)
\* the class names that occur in a class attribute of a reachable page
OccurOnSite(s) ==
    {c \in ClassNames :
        \E u \in ReachableFrom(s, {rootURL}) :
            \E k \in 1..Len(PageAt(s, u).elements) : c \in Range(PageAt(s, u).elements[k])}
NotOnSite(c) == c \notin OccurOnSite(site)
CleanRun == Returned /\ pageLimit = 0 /\ ~ctxDone /\ fault = NoFault

ProcessedPaths == {p \in Paths : \E h \in Hosts : received[URL(h, p)] > 0}
TimesProcessed(p) ==
    LET RECURSIVE Sum(_)
        Sum(hs) == IF hs = {} THEN 0
                   ELSE LET h == CHOOSE x \in hs : TRUE
                        IN received[URL(h, p)] + Sum(hs \ {h})
    IN Sum(Hosts)

\* C2: with pageLimit = N > 0 the number of distinct paths that workers
\* receive, the root page included, never exceeds N.
C2_ProcessedWithinLimit ==
    pageLimit > 0 => Cardinality(ProcessedPaths) <= pageLimit

\* the indices of the reference list whose entry has no count > 0 in the table
UnusedAt(R, U) ==
    {i \in 1..Len(R) : \A k \in 1..Len(U) : U[k].class = R[i] => U[k].count = 0}
\* r holds the entries of R at the indices I, in the order of R
PicksInOrder(r, R, I) ==
    /\ Len(r) = Cardinality(I)
    /\ \A i \in I : r[Cardinality({j \in I : j <= i})] = R[i]

\* C3: the resolver step returns exactly the entries of R for which U has
\* no entry or count 0, in the order of R and with R's duplicates, and it
\* changes neither R nor U.
C3_ResolverExact ==
    /\ [](mainPc = "resolved" => PicksInOrder(unused, classes, UnusedAt(classes, used)))
    /\ [][classes' = classes /\ used' = used]_vars
\* C3 witness: a table with a zero count and a positive count, and a
\* reference list with a duplicate of which some entries are kept
C3_Witness ==
    /\ mainPc = "resolved"
    /\ classes = << "card", "btn", "card" >>
    /\ used = << usedClass("btn", 1), usedClass("card", 0) >>
    /\ unused = << "card", "card" >>

\* C4: when ctx fires before the crawl has completed, FindUnused does not
\* return a normal unused list with a nil error (the table is discarded).
C4_CancelledIsDistinct ==
    (ctxDone /\ Returned) => err # "nil"

AllExited ==
    /\ \A w \in Pool : pc[w] = "exited"
    /\ enqueuers = EmptyBag
\* C5: once ctx is cancelled, every worker and every enqueue goroutine
\* eventually exits, classChan is closed and findUsed returns, unless a
\* page-rendering call panics instead of returning.
C5_CancelTerminates ==
    ctxDone ~> (panicked \/ (AllExited /\ closed /\ Returned))
\* C5 witness: cancelled while an enqueue goroutine was blocked on the
\* queue and a worker was publishing; everything exited and findUsed returned
C5_Witness ==
    /\ ctxDone /\ dropped /\ ~panicked
    /\ AllExited /\ closed /\ Returned
    /\ \E w \in Pool : pageClasses[w] # {}

\* the sum of the counts the returned slice holds for class c
RECURSIVE CountOf(_, _)
CountOf(usedList, c) ==
    IF usedList = << >> THEN 0
    ELSE (IF Head(usedList).class = c THEN Head(usedList).count ELSE 0)
             + CountOf(Tail(usedList), c)
InHand(c) == IF class # None /\ class.class = c THEN class.count ELSE 0

\* C6: the table holds, for every class, the sum of the counts of the
\* observations sent for it (those merged plus the one in the aggregator's
\* hand), whatever the interleaving, and findUsed returns exactly these sums.
C6_TableIsSumOfSent ==
    /\ \A c \in ClassNames : tmp[c] + InHand(c) = sent[c]
    /\ Returned => \A c \in ClassNames : CountOf(used, c) = sent[c]
\* C6 witness: a class observed on several pages by both workers has been
\* summed and returned
C6_Witness ==
    /\ Returned /\ workers > 1 /\ ~ctxDone
    /\ sent["btn"] >= 3 /\ sent["card"] = 2
    /\ CountOf(used, "btn") = sent["btn"]

\* C7: a failure while handling one page (page creation, load, stability
\* wait, DOM query) never aborts the crawl.
C7_PageFailureContained ==
    ~panicked

\* C8: with a single worker no path is received from the queue more than
\* once, the root URL's own path included.
C8_SingleWorkerNoRevisit ==
    workers = 1 => \A p \in Paths : TimesProcessed(p) <= 1

\* C9: every URL that link discovery admits, every URL on the way to the
\* queue and every URL a worker receives has the root URL's host.
C9_OnlyRootHost ==
    /\ \A w \in Pool : \A i \in 1..Len(out[w]) : out[w][i].host = rootURL.host
    /\ \A urls \in BagToSet(enqueuers) : \A i \in 1..Len(urls) : urls[i].host = rootURL.host
    /\ \A u \in URLs : received[u] > 0 => u.host = rootURL.host
\* C9 witness: the cross-host link and the relative link of the site were
\* examined (the pages listing them were crawled to the end)
C9_Witness ==
    /\ Returned /\ ~ctxDone /\ site = SiteCycle /\ pageLimit = 0
    /\ received[URL("h", "/b")] > 0 /\ fault = NoFault

ValidShape(name) ==
    /\ Len(name) >= 1
    /\ name[1] \in {"a", "b", "_"}
    /\ \A k \in 1..Len(name) : name[k] \in {"a", "b", "1", "_", "-"}

\* C10: ExtractClasses returns a list sorted ascending without repeated
\* entries, without an entry that starts with a dot, every entry of the
\* shape [A-Za-z_][A-Za-z0-9_-]*.
C10_SortedUniqueValid ==
    mainPc = "extracted" =>
        /\ \A i \in 1..Len(cssClasses) - 1 : Less(cssClasses[i], cssClasses[i + 1])
        /\ \A i, j \in 1..Len(cssClasses) : i # j => cssClasses[i] # cssClasses[j]
        /\ \A i \in 1..Len(cssClasses) :
              /\ cssClasses[i] # << >> => cssClasses[i][1] # "."
              /\ ValidShape(cssClasses[i])
\* C10 witness: a stylesheet that names b before a
C10_Witness ==
    /\ mainPc = "extracted"
    /\ css = << ".", "b", ".", "a", "{" >>
    /\ cssClasses = << << "a" >>, << "b" >> >>

\* C11: with pageLimit = N > 0 the visited set holds at most N paths in
\* every reachable state, under every interleaving of has/count/add (that
\* the set never loses a path holds: AddLink is the only step that writes it).
C11_VisitedWithinLimit ==
    pageLimit > 0 => Cardinality(visited) <= pageLimit

\* how many URLs of the sequence have path p
RECURSIVE PathCount(_, _)
PathCount(urls, p) ==
    IF urls = << >> THEN 0
    ELSE (IF Head(urls).path = p THEN 1 ELSE 0) + PathCount(Tail(urls), p)
\* how many URLs with path p the enqueue goroutines still hold
RECURSIVE QueuedIn(_, _)
QueuedIn(bag, p) ==
    IF bag = EmptyBag THEN 0
    ELSE LET urls == CHOOSE x \in BagToSet(bag) : TRUE
         IN PathCount(urls, p) + QueuedIn(bag (-) SetToBag({urls}), p)
\* how often link discovery has admitted path p: the URLs with that path in
\* a findLinks result, in an enqueue goroutine or already received, less the
\* root URL that findUsed enqueues itself
RECURSIVE InResults(_, _)
InResults(ws, p) ==
    IF ws = {} THEN 0
    ELSE LET w == CHOOSE x \in ws : TRUE
         IN PathCount(out[w], p) + InResults(ws \ {w}, p)
Admissions(p) ==
    InResults(Pool, p) + QueuedIn(enqueuers, p) + TimesProcessed(p)
        - (IF p = rootURL.path THEN 1 ELSE 0)

\* C12: with one worker, link discovery admits no path that the visited set
\* already holds: a link that passes the check has a path that is not in the
\* set, and no path is admitted (returned by findLinks, sent by enqueue) more
\* than once, a path repeated in one page's link list included.
C12_SingleWorkerAdmitsOnce ==
    workers = 1 =>
        /\ \A w \in Pool : pc[w] = "add" => Head(links[w]).path \notin visited
        /\ \A p \in Paths : Admissions(p) <= 1
\* C12 witness: one worker has crawled the site whose root links to /b
\* twice; /b was admitted and received once
C12_Witness ==
    /\ workers = 1 /\ CleanRun /\ site = SiteTwo
    /\ received[URL("h", "/b")] = 1 /\ Admissions("/b") = 1

\* how often class name c stands in the class attributes of a page
Occurrences(page, c) ==
    Cardinality({ki \in (1..Len(page.elements)) \X (1..5) :
                    /\ ki[2] <= Len(page.elements[ki[1]])
                    /\ page.elements[ki[1]][ki[2]] = c})
\* the same, and the paths a page links to on the root's host, tabulated
\* for every site of the specifications
AllSites == {SiteCycle, SiteTwo, SiteLoop, SiteFork}
OccurrencesOn ==
    [s \in AllSites |->
        [u \in URLs |-> [c \in ClassNames |-> Occurrences(PageAt(s, u), c)]]]
LinkedPaths ==
    [s \in AllSites |-> [u \in URLs |-> {t.path : t \in SameHostTargets(s, u)}]]
\* the counts of class c over all the times the pages were received
RECURSIVE CountOverVisits(_, _)
CountOverVisits(us, c) ==
    IF us = {} THEN 0
    ELSE LET u == CHOOSE x \in us : TRUE
         IN (IF received[u] = 0 THEN 0
             ELSE received[u] * OccurrencesOn[site][u][c])
            + CountOverVisits(us \ {u}, c)

\* C13: a path that two workers admit at the same time is processed once
\* per admission, and the only effect is that its counts are added once per
\* visit: the returned count of every class is the sum over all visits, and
\* the classes with a count > 0 are those of the reachable pages.
C13_DuplicateOnlyAddsCounts ==
    CleanRun =>
        \A c \in ClassNames :
            /\ CountOf(used, c) = CountOverVisits(URLs, c)
            /\ CountOf(used, c) > 0 <=> c \in OccurOnSite(site)
\* C13 witness: /a and /b were handled at the same time, both workers passed
\* the has check for the root's path before either added it, so the path was
\* admitted twice and the root page processed three times in all
C13_Witness ==
    /\ CleanRun /\ site = SiteCycle /\ workers >= 2
    /\ Admissions("/") = 2 /\ received[rootURL] = 3
    /\ CountOf(used, "btn-primary") = 3

\* classChan is closed only when every worker has exited, and FindUnused has
\* returned only a table that holds every observation sent
ClosedAfterWorkers ==
    /\ closed => \A w \in Pool : pc[w] = "exited"
    /\ mainPc = "returned" =>
          /\ closed /\ class = None
          /\ \A c \in ClassNames : tmp[c] = sent[c] /\ CountOf(used, c) = sent[c]
          /\ unused = Resolve(classes, used)
\* once closed, classChan stays closed (no second close) and nothing is sent
ClosedIsFinal ==
    closed => closed' /\ sent' = sent /\ class' \in {class, None}

\* C14: classChan is closed once, only after every worker has exited; no
\* worker sends on it after the close; FindUnused resolves only a table that
\* has received every observation sent and has seen the channel closed.
C14_CloseAfterExitThenRead ==
    /\ []ClosedAfterWorkers
    /\ [][ClosedIsFinal]_vars
\* C14 witness: an uncancelled crawl with several workers has sent
\* observations, the channel is closed and FindUnused has returned
C14_Witness ==
    /\ Returned /\ ~ctxDone /\ workers >= 2 /\ closed
    /\ sent["btn"] >= 2 /\ CountOf(used, "btn") = sent["btn"]

\* a worker that has gone through the links of its page can start the
\* enqueue goroutine at once, whatever the other workers are doing
SpawnReady ==
    \A w \in Pool :
        (Running /\ pc[w] = "findLinks" /\ links[w] = << >>) => ENABLED Spawn(w)
\* no live worker is stuck on a channel: at its select, in findLinks and in
\* the publish loop it can take a step itself, or it waits to send an
\* observation that the aggregation loop is about to take; otherwise it is
\* in the rendering calls of the page it received
NoWorkerStuck ==
    \A w \in Pool :
        Running =>
            CASE pc[w] = "select" ->
                    ENABLED Timeout(w) \/ ENABLED CtxExit(w) \/ ENABLED Receive(w)
              [] pc[w] = "visit" -> pageUrl[w] # None
              [] pc[w] = "findLinks" -> ENABLED CheckLink(w) \/ ENABLED Spawn(w)
              [] pc[w] = "add" -> ENABLED AddLink(w)
              [] pc[w] = "publish" ->
                    ENABLED Publish(w) \/ ENABLED PublishAbort(w) \/ ENABLED Aggregate
              [] OTHER -> pc[w] = "exited"
\* the step from link discovery to publishing waits for no receive
SpawnWaitsForNoReceive ==
    \A w \in Pool :
        (pc[w] = "findLinks" /\ pc'[w] \in {"publish", "select"}) =>
            /\ received' = received
            /\ out[w] # << >> => CopiesIn(out[w], enqueuers') = CopiesIn(out[w], enqueuers) + 1

\* C15: re-enqueueing never blocks the discovering worker: for every pool
\* size it hands its links to an enqueue goroutine and goes on to publish and
\* to its select without any of the links being received, and no state has
\* a worker blocked on a send to the queue.
C15_EnqueueNeverBlocksWorker ==
    /\ [](SpawnReady /\ NoWorkerStuck)
    /\ [][SpawnWaitsForNoReceive]_vars
\* C15 witness: the only worker publishes its observations while the links
\* it discovered still wait to be received
C15_Witness ==
    /\ workers = 1 /\ ~ctxDone /\ pc[1] = "publish"
    /\ enqueuers # EmptyBag /\ sent["btn"] > 0

\* while ctx is not cancelled a worker leaves the pool only from its select,
\* on the idle timer, with no URL pending
ExitsOnIdleTimeout ==
    \A w \in Pool :
        (~ctxDone' /\ pc[w] # "exited" /\ pc'[w] = "exited") =>
            pc[w] = "select" /\ enqueuers = EmptyBag

\* C16: on a finite site, if ctx is never cancelled and the rendering calls
\* return, the crawl completes: with no URL pending every worker exits on
\* its idle timer, the barrier closes classChan and FindUnused returns.
C16_CrawlCompletes ==
    /\ <>(ctxDone \/ panicked \/ (AllExited /\ closed /\ Returned))
    /\ [][ExitsOnIdleTimeout]_vars
\* C16 witness: an uncancelled crawl of the cyclic site went round the
\* cycle, every worker timed out and FindUnused returned
C16_Witness ==
    /\ ~ctxDone /\ ~panicked /\ AllExited /\ closed /\ Returned
    /\ site = SiteLoop /\ pageLimit = 0 /\ received[rootURL] >= 2

\* C17: in a crawl that is never cancelled every admitted URL is received
\* before the pool completes: an admitted path is always in a findLinks
\* result, in an enqueue goroutine or received, and when findUsed returns
\* no enqueue goroutine is left blocked on the queue and every path of the
\* visited set has been received as often as it was admitted.
C17_AdmittedIsReceived ==
    ~ctxDone =>
        /\ \A p \in visited : Admissions(p) >= 1
        /\ Returned =>
              /\ enqueuers = EmptyBag
              /\ \A w \in Pool : out[w] = << >>
              /\ \A p \in visited :
                    TimesProcessed(p) >= 1 + (IF p = rootURL.path THEN 1 ELSE 0)
\* C17 witness: the single worker was busy while its enqueue goroutine held
\* two admitted URLs; both were received before findUsed returned
C17_Witness ==
    /\ Returned /\ ~ctxDone /\ workers = 1 /\ site = SiteCycle
    /\ visited = {"/", "/a", "/b"}
    /\ received[URL("h", "/a")] = 1 /\ received[URL("h", "/b")] = 1

\* the URLs whose handling does not fail
OkURLs == {u \in URLs : fault[u] = "ok"}
\* a worker whose page fails never reaches link admission or publishing
FailedPageStopsAtVisit ==
    \A w \in Pool :
        (pageUrl[w] # None /\ fault[pageUrl[w]] # "ok") =>
            pc[w] \in {"visit", "select", "exited"}
\* what has been sent and admitted is accounted for by the pages that did
\* not fail: every observation by a visit of such a page, every visited path
\* and every admitted URL by a link on such a page
OnlyOkPagesCount ==
    /\ LET handled == {u \in OkURLs : received[u] > 0}
       IN /\ \A c \in ClassNames :
                sent[c] = 0 \/ sent[c] <= CountOverVisits(handled, c)
          /\ \A p \in visited : \E u \in handled : p \in LinkedPaths[site][u]
    /\ \A w \in Pool : \A i \in DOMAIN out[w] : out[w][i].path \in visited
    /\ \A urls \in BagToSet(enqueuers) :
          urls = << rootURL >> \/ \A i \in DOMAIN urls : urls[i].path \in visited
    /\ \A u \in URLs : received[u] > 0 => u = rootURL \/ u.path \in visited
\* the step a worker takes when its page fails leaves the crawl state alone
FailedStepChangesNothing ==
    \A w \in Pool :
        (~panicked' /\ pc[w] = "visit" /\ pc'[w] # "visit" /\ fault[pageUrl[w]] # "ok") =>
            /\ pc'[w] = "select"
            /\ sent' = sent /\ class' = class /\ visited' = visited
            /\ enqueuers' = enqueuers /\ out' = out

\* C18: a page whose handling fails (load, stability wait, class
\* extraction, link query) contributes nothing: none of its classes is sent
\* to the aggregator, no path is added to the visited set for it and no URL
\* found on it is enqueued.
C18_FailedPageContributesNothing ==
    /\ [](FailedPageStopsAtVisit /\ OnlyOkPagesCount)
    /\ [][FailedStepChangesNothing]_vars
\* C18 witness: /b failed after it was received; the crawl went on and
\* returned a table without the class that only /b uses
C18_Witness ==
    /\ Returned /\ ~ctxDone /\ site = SiteCycle
    /\ fault[URL("h", "/b")] \in {"WaitLoad", "findLinks"}
    /\ received[URL("h", "/b")] >= 1
    /\ sent["card"] = 0 /\ sent["btn"] >= 2

\* C19: in the colly engine with pageLimit = N > 0 a link is scheduled for a
\* visit only while fewer than N links have been scheduled, and only if its
\* path was not scheduled before, under every interleaving of the callbacks.
C19_ScheduledBelowLimitOnce ==
    pageLimit > 0 =>
        \A i \in DOMAIN scheduled :
            /\ scheduled[i].before < pageLimit
            /\ \A j \in 1..(i - 1) : scheduled[j].path # scheduled[i].path

====
